---- MODULE Spec2Model ----
(***************************************************************************)
(* The scrape-dedup-persist-notify pipeline of wohnungssuche:              *)
(*   service.py   ApartmentService.process_listing / search_apartments,   *)
(*                ApartmentSearchRunner.start / _search_loop               *)
(*   database.py  ListingRepository (the listings table)                   *)
(*   scraper.py   ApartmentScraper (session, results page, description)    *)
(* External I/O (browser, database connectivity, Telegram) is the          *)
(* environment: each call's outcome is chosen nondeterministically among   *)
(* the outcomes the call can have.                                         *)
(***************************************************************************)
EXTENDS Integers, Sequences, FiniteSets, TLC

VARIABLES
    store,                  \* the listings table: listing_id -> row (its status
                            \* and whether processed_at is set; other columns left out)
    processed_ids,          \* ApartmentService.processed_ids (in-run cache)
    notifier,               \* TRUE iff ApartmentService.notifier is not None
    is_running,             \* ApartmentSearchRunner.is_running
    pc,                     \* control location of the search task
    consecutive_failures,   \* local of _search_loop
    sleeping,               \* duration of the asyncio.sleep in progress, 0 if none
    stats,                  \* local of search_apartments
    scraper_retry_count,    \* local of search_apartments
    driver,                 \* "none" | "open": the current ApartmentScraper's driver
    target,                 \* index into SEARCH_URLS of the url being visited
    listings_data,          \* listings of the current target not yet handled
    basic_info,             \* the dict handed to process_listing
    call,                   \* history: what the current/last process_listing call did
    prev,                   \* history: the listing_id of the call that returned just before
                            \* (0: none, or it raised)
    cyc,                    \* history: what the current search cycle did
    cycles,                 \* history: number of search cycles started
    visits,                 \* history: number of results pages fetched
    restarts,               \* history: number of process restarts
    streak,                 \* history: consecutive cycles an exception escaped from
    notifications,          \* history: per listing_id, the calls of send_listing_notification
    stopper,                \* position of ApartmentSearchRunner.stop()
    pool                    \* "open" | "closed": DatabaseManager._pool

\* ApartmentScraper.check_search_results on its own (scraper.py 120-251)
VARIABLES
    listing_articles,       \* the article.aditem elements of the results page
    article,                \* position of the for loop in listing_articles
    collected,              \* the function's listings_data
    scraper_pc              \* control location in check_search_results

scraperVars == <<listing_articles, article, collected, scraper_pc>>

\* utils.retry around get_full_listing_description on its own
\* (utils.py 19-57, scraper.py 82-118)
VARIABLES
    outcomes,               \* input: what the i-th call of the wrapped function meets
    attempt,                \* the for loop's variable
    last_exception,         \* the wrapper's last_exception ("none": None)
    retry_pc,               \* control location in the wrapper
    retry_log               \* history: calls made, waits made, seconds waited, result

retryVars == <<outcomes, attempt, last_exception, retry_pc, retry_log>>

\* one ListingRepository operation on its own, through DatabaseManager.get_cursor
\* (database.py 20-41 and 56-116); it works on the table, store
VARIABLES
    used,                   \* connections checked out of the pool
    repo_pc,                \* control location in get_connection / get_cursor
    op,                     \* the operation in progress (or the last one) and its listing
    txn,                    \* the table as the open transaction sees it
    repo_log                \* history: the table before the call, what failed, the result

repoVars == <<used, repo_pc, op, txn, repo_log>>

\* TelegramNotifier.send_notification on its own (notifier.py 24-89)
VARIABLES
    bot_token,              \* TRUE iff self.bot_token is not empty
    chat_id,                \* TRUE iff self.chat_id is not empty
    bot,                    \* "none" | "built": self._bot
    use_fallback,           \* self.use_fallback
    message,                \* the text handed to send_notification
    notify_pc,              \* control location in send_notification
    notify_log              \* history: what the last send_notification call did

notifierVars == <<bot_token, chat_id, bot, use_fallback, message, notify_pc, notify_log>>

\* startup on its own: config.py 56-102, app.py 27-35, service.py 166-183,
\* notifier.py 209-215; it decides notifier
VARIABLES
    env,                    \* the environment: DATABASE_URL, TELEGRAM_BOT_TOKEN, TELEGRAM_CHAT_IDS
    boot_pc,                \* how far startup has come
    boot_failed             \* "none", or the step whose exception ended startup

startupVars == <<env, boot_pc, boot_failed>>

\* ApartmentSearchRunner.start / stop on their own (service.py 185-215); they
\* work on is_running and pool
VARIABLES
    tasks,                  \* per task created: "none" | "alive" | "cancelling" | "done"
    search_task,            \* self.search_task: the task created last, 0 for None
    awaited,                \* the tasks that a stop() in flight waits for
    last_call,              \* what the last call of start() or stop() did
    ignored                 \* history: the calls ("start", "stop") that returned at once

lifecycleVars == <<tasks, search_task, awaited, last_call, ignored>>

\* the variables of the components modelled on their own
outside == <<scraperVars, retryVars, repoVars, notifierVars, startupVars,
             lifecycleVars>>

\* the variables of the service and its runner, the table and the notifier apart
runner == <<processed_ids, is_running, pc, consecutive_failures,
            sleeping, stats, scraper_retry_count, driver, target, listings_data,
            basic_info, call, prev, cyc, cycles, visits, restarts, streak,
            notifications, stopper, pool>>

\* the variables of the service and its runner, the table apart
service == <<notifier, runner>>

\* the variables of the search pipeline
pipeline == <<store, service>>

\* what start() and stop() on their own leave alone
lifecycleFrame == <<store, notifier, processed_ids, pc, consecutive_failures,
                    sleeping, stats, scraper_retry_count, driver, target,
                    listings_data, basic_info, call, prev, cyc, cycles, visits,
                    restarts, streak, notifications, stopper, scraperVars, retryVars, repoVars,
                    notifierVars, startupVars>>

vars == <<pipeline, outside>>

----------------------------------------------------------------------------
(* Bounds of the model *)

NumTargets == 2
MaxCycles == 2
MaxVisits == 2
MaxRestarts == 1
MaxLoopCycles == 7
MaxTasks == 3
MaxFieldArticles == 2
MaxArticles == 3
MaxFetchCalls == 5

(* Program constants *)

CHECK_INTERVAL == 100
max_scraper_retries == 3
max_consecutive_failures == 3
ListingPause == 1
TargetPause == 2
RetryWait == 10
max_retries == 3
delay == 2
max_connections == 5

\* The listing ids that results pages show. process_listing handles one id at a
\* time and the table is keyed by it, so two ids tell "this listing" from
\* "another listing"; 0 stands for "no listing".
Ids == {111, 222}

\* config.SEARCH_URLS: one url per configured district, in a fixed order
SEARCH_URLS == [i \in 1..NumTargets |-> i]

----------------------------------------------------------------------------
(* database.py: the listings table and ListingRepository *)

NoRow == [present |-> FALSE, status |-> "none", processed_at |-> FALSE]

\* SELECT EXISTS(SELECT 1 FROM listings WHERE listing_id = %s)
listing_exists(s, id) == s[id].present

\* the status of the record not looked at: every row inserted as 'new'
save_listingAsNew(s, info) ==
    [s EXCEPT ![info.listing_id] =
        [present |-> TRUE, status |-> "new", processed_at |-> FALSE]]

\* status = listing_data.get('status', 'new'); INSERT ... ; processed_at is NULL
save_listing(s, info) ==
    [s EXCEPT ![info.listing_id] =
        [present |-> TRUE,
         status |-> IF info.status = "unset" THEN "new" ELSE info.status,
         processed_at |-> FALSE]]

\* the UPDATE left out: processed_at stays NULL
mark_listing_processedNoUpdate(s, id) == s

\* UPDATE listings SET processed_at = now WHERE listing_id = %s
mark_listing_processed(s, id) ==
    IF s[id].present THEN [s EXCEPT ![id].processed_at = TRUE] ELSE s

\* the error recorded in a row of its own when the listing has none
mark_listing_errorUpsert(s, id) ==
    [s EXCEPT ![id] = [present |-> TRUE, status |-> "error", processed_at |-> TRUE]]

\* UPDATE listings SET status = 'error', processed_at = now, description = 'Error: ...'
\*   WHERE listing_id = %s       (an UPDATE that matches no row changes nothing)
mark_listing_error(s, id) ==
    IF s[id].present
        THEN [s EXCEPT ![id] = [present |-> TRUE, status |-> "error",
                                processed_at |-> TRUE]]
        ELSE s

\* listing_id is the table's unique business key: a second INSERT raises
UniqueViolation(s, id) == s[id].present

----------------------------------------------------------------------------
(* service.py: ApartmentService.process_listing *)

\* the cache never consulted: every call goes to the table
InCacheIgnored(cache, id) == FALSE

\* line 47: listing_id in self.processed_ids or self.db_repo.listing_exists(listing_id)
InCache(cache, id) == id \in cache

\* the gate with the table query left out
DedupGateCacheOnly(cache, s, id) == InCache(cache, id)

\* no gate: every listing is processed
DedupGateOff(cache, s, id) == FALSE

DedupGate(cache, s, id) == InCache(cache, id) \/ listing_exists(s, id)

\* a call that raised left uncounted
StatsAfterCallRaiseUncounted(st, result) ==
    IF result = "raised" THEN st ELSE [st EXCEPT !.processed = @ + 1]

\* lines 124-128: the counters after one process_listing call:
\* processed is incremented whenever the call returns, errors when it raises
StatsAfterCall(st, result) ==
    IF result = "raised"
        THEN [st EXCEPT !.errors = @ + 1]
        ELSE [st EXCEPT !.processed = @ + 1]

NewCall(id) ==
    [id |-> id, gate |-> "none", fetch |-> "none", save |-> "none",
     notify |-> "none", mark |-> "none", markerr |-> "none",
     result |-> "pending", dProcessed |-> 0, dErrors |-> 0]

NoCall == NewCall(0)

NoInfo == [listing_id |-> 0, description |-> "none", status |-> "unset"]

\* an exception of process_listing leaves the loop over the listings and is
\* handled with the url (line 133)
AfterCallAbort(result) == IF result = "raised" THEN "sleep2" ELSE "sleep1"

\* lines 123-131: returned or raised (except Exception, line 126), the loop
\* over the listings goes on with the pause between listings
AfterCall(result) == "sleep1"

\* process_listing is over (returned or raised): search_apartments counts it
\* (lines 125/128) and starts the pause between listings (line 131)
Returned(c, result) ==
    /\ stats' = StatsAfterCall(stats, result)
    /\ call' = [c EXCEPT !.result = result,
                         !.dProcessed = StatsAfterCall(stats, result).processed - stats.processed,
                         !.dErrors = StatsAfterCall(stats, result).errors - stats.errors]
    /\ pc' = AfterCall(result)
    /\ sleeping' = ListingPause

\* lines 45-49: the dedup gate; the table is only queried on a cache miss, and
\* the query is outside the try block, so its exception escapes process_listing
Gate ==
    /\ pc = "pl_gate"
    /\ \E r \in {"ok", "raised"} :
         LET id == Head(listings_data)
             c  == NewCall(id)
         IN /\ (InCache(processed_ids, id) => r = "ok")
            /\ basic_info' = [listing_id |-> id, description |-> "preview",
                              status |-> "unset"]
            /\ cyc' = [cyc EXCEPT !.fault = @ \/ r = "raised",
                                  !.existing = @ + (IF listing_exists(store, id) THEN 1 ELSE 0)]
            /\ IF InCache(processed_ids, id)
                 THEN Returned([c EXCEPT !.gate = "cached"], "False")
                 ELSE IF r = "raised"
                   THEN Returned([c EXCEPT !.gate = "raised"], "raised")
                   ELSE IF DedupGate(processed_ids, store, id)
                     THEN Returned([c EXCEPT !.gate = "skipped"], "False")
                     ELSE /\ call' = [c EXCEPT !.gate = "passed"]
                          /\ pc' = "pl_fetch"
                          /\ UNCHANGED <<stats, sleeping>>
    /\ UNCHANGED <<store, processed_ids, notifier, is_running, consecutive_failures,
                   scraper_retry_count, driver, target, listings_data, prev, cycles,
                   visits, restarts, streak>>
    /\ UNCHANGED <<stopper, pool, notifications, outside>>

\* lines 55-60: full_description = scraper.get_full_listing_description(url)
Fetch ==
    /\ pc = "pl_fetch"
    /\ \E r \in {"full", "empty", "raised"} :
         /\ call' = [call EXCEPT !.fetch = r]
         /\ IF r = "raised"
              THEN /\ pc' = "pl_except"
                   /\ UNCHANGED basic_info
              ELSE /\ pc' = "pl_save"
                   /\ basic_info' = [basic_info EXCEPT
                          !.description = IF r = "full" THEN "full" ELSE @,
                          !.status = "suitable"]
         /\ cyc' = [cyc EXCEPT !.fault = @ \/ r = "raised"]
    /\ UNCHANGED <<store, processed_ids, notifier, is_running, consecutive_failures,
                   sleeping, stats, scraper_retry_count, driver, target,
                   listings_data, prev, cycles, visits, restarts, streak>>
    /\ UNCHANGED <<stopper, pool, notifications, outside>>

\* the listing marked right after the save, the notification left out
AfterSaveUnnotified == "pl_mark"

\* lines 66-69: what follows a committed save
AfterSave == IF notifier THEN "pl_notify" ELSE "pl_mark"

\* the notification sent whether or not the insert was committed
AfterSaveFailedNotifies == AfterSave

\* lines 63 and 77: an exception of save_listing leaves the try block for the
\* handler
AfterSaveFailed == "pl_except"

\* line 63: self.db_repo.save_listing(basic_info)
Save ==
    /\ pc = "pl_save"
    /\ \E r \in {"ok", "raised"} :
         /\ UniqueViolation(store, basic_info.listing_id) => r = "raised"
         /\ call' = [call EXCEPT !.save = IF UniqueViolation(store, basic_info.listing_id)
                                            THEN "unique" ELSE r]
         /\ IF r = "ok"
              THEN /\ store' = save_listing(store, basic_info)
                   /\ pc' = AfterSave
                   /\ cyc' = [cyc EXCEPT !.saved = @ + 1]
              ELSE /\ pc' = AfterSaveFailed
                   /\ cyc' = [cyc EXCEPT !.fault = TRUE]
                   /\ UNCHANGED store
    /\ UNCHANGED <<processed_ids, notifier, is_running, consecutive_failures, sleeping,
                   stats, scraper_retry_count, driver, target, listings_data,
                   basic_info, prev, cycles, visits, restarts, streak>>
    /\ UNCHANGED <<stopper, pool, notifications, outside>>

\* line 68: an exception of send_listing_notification is not caught around the
\* call; it reaches the handler of line 77. The return value is not looked at.
\* the notifier's result treated as a precondition of mark_listing_processed
NotifyNextChecked(r) == IF r = "true" THEN "pl_mark" ELSE "pl_except"

NotifyNext(r) == IF r = "raised" THEN "pl_except" ELSE "pl_mark"

\* lines 67-69: await self.notifier.send_listing_notification(basic_info)
Notify ==
    /\ pc = "pl_notify"
    /\ \E r \in {"true", "false", "raised"} :
         /\ call' = [call EXCEPT !.notify = r]
         /\ pc' = NotifyNext(r)
         /\ cyc' = [cyc EXCEPT !.notified = @ + 1, !.fault = @ \/ r # "true"]
    /\ notifications' = [notifications EXCEPT ![basic_info.listing_id] = @ + 1]
    /\ UNCHANGED <<store, processed_ids, notifier, is_running, consecutive_failures,
                   sleeping, stats, scraper_retry_count, driver, target,
                   listings_data, basic_info, prev, cycles, visits, restarts, streak>>
    /\ UNCHANGED <<stopper, pool, outside>>

\* lines 72-75: mark_listing_processed, processed_ids.add, return True
Mark ==
    /\ pc = "pl_mark"
    /\ \E r \in {"ok", "raised"} :
         IF r = "ok"
           THEN /\ store' = mark_listing_processed(store, basic_info.listing_id)
                /\ processed_ids' = processed_ids \cup {basic_info.listing_id}
                /\ Returned([call EXCEPT !.mark = "ok"], "True")
                /\ UNCHANGED cyc
           ELSE /\ call' = [call EXCEPT !.mark = "raised"]
                /\ pc' = "pl_except"
                /\ cyc' = [cyc EXCEPT !.fault = TRUE]
                /\ UNCHANGED <<store, processed_ids, stats, sleeping>>
    /\ UNCHANGED <<notifier, is_running, consecutive_failures, scraper_retry_count,
                   driver, target, listings_data, basic_info, prev, cycles, visits, restarts, streak>>
    /\ UNCHANGED <<stopper, pool, notifications, outside>>

\* lines 77-81: except Exception: mark_listing_error(listing_id, str(e)); return False
Except ==
    /\ pc = "pl_except"
    /\ \E r \in {"ok", "raised"} :
         IF r = "ok"
           THEN /\ store' = mark_listing_error(store, basic_info.listing_id)
                /\ Returned([call EXCEPT !.markerr = "ok"], "False")
           ELSE /\ Returned([call EXCEPT !.markerr = "raised"], "raised")
                /\ UNCHANGED store
    /\ UNCHANGED <<processed_ids, notifier, is_running, consecutive_failures,
                   scraper_retry_count, driver, target, listings_data, basic_info,
                   prev, cyc, cycles, visits, restarts, streak>>
    /\ UNCHANGED <<stopper, pool, notifications, outside>>

----------------------------------------------------------------------------
(* service.py: ApartmentService.search_apartments *)

ZeroStats == [total_found |-> 0, processed |-> 0, errors |-> 0]

ZeroCyc == [attempts |-> 0, inited |-> FALSE, waits |-> 0, existing |-> 0, saved |-> 0,
            notified |-> 0, fault |-> FALSE]

\* line 146: if scraper_retry_count >= max_scraper_retries: give up
\* the bound compared with > : one attempt too many
RetriesExhaustedLate(n) == n > max_scraper_retries

RetriesExhausted(n) == n >= max_scraper_retries

\* the with block left without __exit__: the driver stays as it is
QuitSkipped(d) == d

\* scraper.py 65-68: __exit__ calls self.driver.quit(); the session is given
\* up, also when quit() raises
Quit(d) == "none"

\* lines 143-150: except Exception: count the attempt, give up or wait and retry
ScraperFailed ==
    /\ scraper_retry_count' = scraper_retry_count + 1
    /\ driver' = Quit(driver)
    /\ IF RetriesExhausted(scraper_retry_count + 1)
         THEN pc' = "cycle_return" /\ sleeping' = 0
         ELSE pc' = "sleep10" /\ sleeping' = RetryWait

\* lines 105-112: ApartmentScraper(), driver.get(start page), handle_consent_banner()
SessionInit ==
    /\ pc = "session_init"
    /\ \E r \in {"ok", "raised"} :
         IF r = "ok"
           THEN /\ driver' = "open"
                /\ target' = 1
                /\ pc' = "target"
                /\ cyc' = [cyc EXCEPT !.attempts = @ + 1, !.inited = TRUE]
                /\ UNCHANGED <<scraper_retry_count, sleeping>>
           ELSE /\ ScraperFailed
                /\ cyc' = [cyc EXCEPT !.attempts = @ + 1, !.fault = TRUE]
                /\ UNCHANGED target
    /\ UNCHANGED <<store, processed_ids, notifier, is_running, consecutive_failures,
                   stats, listings_data, basic_info, call, prev, cycles, visits, restarts, streak>>
    /\ UNCHANGED <<stopper, pool, notifications, outside>>

\* line 150: await asyncio.sleep(10) is over; line 103 starts the next attempt
Sleep10Done ==
    /\ pc = "sleep10"
    /\ pc' = "session_init"
    /\ sleeping' = 0
    /\ cyc' = [cyc EXCEPT !.waits = @ + 1]
    /\ UNCHANGED <<store, processed_ids, notifier, is_running, consecutive_failures,
                   stats, scraper_retry_count, driver, target, listings_data,
                   basic_info, call, prev, cycles, visits, restarts, streak>>
    /\ UNCHANGED <<stopper, pool, notifications, outside>>

\* a results page: the listings check_search_results returns for one url
RECURSIVE Ascending(_)
Ascending(s) == Len(s) < 2 \/ (s[1] < s[2] /\ Ascending(Tail(s)))

Pages == {p \in UNION {[1..n -> Ids] : n \in 0..Cardinality(Ids)} : Ascending(p)}

\* lines 118-119: listings_data = scraper.check_search_results(url), for as
\* long as fewer than cap results pages have been fetched
Visit(cap) ==
    /\ pc = "target"
    /\ target <= Len(SEARCH_URLS)
    /\ visits < cap
    /\ visits' = visits + 1
    /\ \E page \in Pages :
         /\ listings_data' = page
         /\ stats' = [stats EXCEPT !.total_found = @ + Len(page)]
         /\ IF page = <<>>
              THEN pc' = "sleep2" /\ sleeping' = TargetPause
              ELSE pc' = "pl_gate" /\ sleeping' = 0
    /\ UNCHANGED <<store, processed_ids, notifier, is_running, consecutive_failures,
                   scraper_retry_count, driver, target, basic_info, call, prev,
                   cyc, cycles, restarts, streak>>
    /\ UNCHANGED <<stopper, pool, notifications, outside>>

CheckSearchResults == Visit(MaxVisits)

\* the next url is taken up as soon as the batch is exhausted
NextListingNoTargetPause(rest) == IF rest = <<>> THEN "target" ELSE "pl_gate"

\* lines 122-138: the for loop takes the next listing; after the last one the
\* pause between the urls follows
NextListing(rest) == IF rest = <<>> THEN "sleep2" ELSE "pl_gate"

\* line 131: await asyncio.sleep(1) is over; next listing, or line 138 after the last
Sleep1Done ==
    /\ pc = "sleep1"
    /\ listings_data' = Tail(listings_data)
    /\ prev' = IF call.result = "raised" THEN 0 ELSE call.id
    /\ call' = NoCall
    /\ basic_info' = NoInfo
    /\ pc' = NextListing(Tail(listings_data))
    /\ sleeping' = IF Tail(listings_data) = <<>> THEN TargetPause ELSE 0
    /\ UNCHANGED <<store, processed_ids, notifier, is_running, consecutive_failures,
                   stats, scraper_retry_count, driver, target, cyc, cycles, visits,
                   restarts, streak>>
    /\ UNCHANGED <<stopper, pool, notifications, outside>>

\* line 138: await asyncio.sleep(2) is over; next url
Sleep2Done ==
    /\ pc = "sleep2"
    /\ target' = target + 1
    /\ pc' = "target"
    /\ sleeping' = 0
    /\ UNCHANGED <<store, processed_ids, notifier, is_running, consecutive_failures,
                   stats, scraper_retry_count, driver, listings_data, basic_info,
                   call, prev, cyc, cycles, visits, restarts, streak>>
    /\ UNCHANGED <<stopper, pool, notifications, outside>>

\* the break left out: the while loop of line 103 goes round again
AfterSessionNoBreak == "session_init"

\* lines 140-141 and 152-161: the session ended without an exception: break,
\* then the statistics are logged and returned
AfterSession == "cycle_return"

\* the with block ends after the last url: ApartmentScraper.__exit__ quits the
\* driver (scraper.py 65-68); if quit raises, the handler of line 143 runs
SessionExit ==
    /\ pc = "target"
    /\ target > Len(SEARCH_URLS)
    /\ \E r \in {"ok", "raised"} :
         IF r = "ok"
           THEN /\ driver' = Quit(driver)
                /\ pc' = AfterSession
                /\ UNCHANGED <<scraper_retry_count, sleeping, cyc>>
           ELSE /\ ScraperFailed
                /\ cyc' = [cyc EXCEPT !.fault = TRUE]
    /\ UNCHANGED <<store, processed_ids, notifier, is_running, consecutive_failures,
                   stats, target, listings_data, basic_info, call, prev, cycles,
                   visits, restarts, streak>>
    /\ UNCHANGED <<stopper, pool, notifications, outside>>

----------------------------------------------------------------------------
(* service.py: ApartmentSearchRunner *)

\* line 238: if consecutive_failures >= max_consecutive_failures
\* the threshold compared with > : the long break one failure late
TooManyFailuresLate(n) == n > max_consecutive_failures

TooManyFailures(n) == n >= max_consecutive_failures

\* lines 225-246, from the end of search_apartments to the next await
AfterCycle(outcome) ==
    IF outcome = "returned"
      THEN /\ consecutive_failures' = 0
           /\ pc' = "loop_sleep"
           /\ sleeping' = CHECK_INTERVAL
      ELSE /\ consecutive_failures' = consecutive_failures + 1
           /\ IF TooManyFailures(consecutive_failures + 1)
                THEN pc' = "loop_backoff" /\ sleeping' = CHECK_INTERVAL * 2
                ELSE pc' = "loop_sleep" /\ sleeping' = CHECK_INTERVAL

\* lines 185-195: start()
Start ==
    /\ pc = "idle"
    /\ ~is_running
    /\ is_running' = TRUE
    /\ pc' = "loop_while"
    /\ UNCHANGED <<store, processed_ids, notifier, consecutive_failures, sleeping,
                   stats, scraper_retry_count, driver, target, listings_data,
                   basic_info, call, prev, cyc, cycles, visits, restarts, streak>>
    /\ UNCHANGED <<stopper, pool, notifications, outside>>

\* line 222 and lines 90-101: the loop starts a search cycle
StartCycle ==
    /\ pc = "loop_while"
    /\ is_running
    /\ cycles < MaxCycles
    /\ cycles' = cycles + 1
    /\ stats' = ZeroStats
    /\ scraper_retry_count' = 0
    /\ cyc' = ZeroCyc
    /\ pc' = "session_init"
    /\ UNCHANGED <<store, processed_ids, notifier, is_running, consecutive_failures,
                   sleeping, driver, target, listings_data, basic_info, call, prev,
                   visits, restarts, streak>>
    /\ UNCHANGED <<stopper, pool, notifications, outside>>

\* the exception of the last session attempt raised again when the cycle is
\* given up
CycleOutcomeAbandonedRaises(n) == IF RetriesExhausted(n) THEN "raised" ELSE "returned"

\* lines 143-161: the handler of line 143 raises nothing and the statements
\* after the while loop return stats, also when the cycle was given up
CycleOutcome(n) == "returned"

\* lines 152-161 and 225-246: search_apartments returns its stats to the loop
CycleReturn ==
    /\ pc = "cycle_return"
    /\ AfterCycle(CycleOutcome(scraper_retry_count))
    /\ streak' = 0
    /\ UNCHANGED <<store, processed_ids, notifier, is_running, stats,
                   scraper_retry_count, driver, target, listings_data, basic_info,
                   call, prev, cyc, cycles, visits, restarts>>
    /\ UNCHANGED <<stopper, pool, notifications, outside>>

\* line 246: await asyncio.sleep(wait_time) is over
LoopSleepDone ==
    /\ pc = "loop_sleep"
    /\ pc' = "loop_while"
    /\ sleeping' = 0
    /\ UNCHANGED <<store, processed_ids, notifier, is_running, consecutive_failures,
                   stats, scraper_retry_count, driver, target, listings_data,
                   basic_info, call, prev, cyc, cycles, visits, restarts, streak>>
    /\ UNCHANGED <<stopper, pool, notifications, outside>>

\* the awaits of the search task at which asyncio can throw CancelledError into
\* it: the sleeps (lines 131, 138, 150, 240, 246) and the notifier's await
\* (line 68)
AwaitPoints == {"sleep1", "sleep2", "sleep10", "loop_sleep", "loop_backoff",
                "pl_notify"}

\* the awaits inside the with block of search_apartments (lines 105-138)
InSession == {"sleep1", "sleep2", "pl_notify"}

\* a search task exists and has not ended
TaskAlive == pc \notin {"idle", "cancelled", "finished"}

\* the pool closed as soon as cancel() has been called
TaskNotAwaited(p) == TRUE

\* lines 206-211: await self.search_task returns (or raises CancelledError)
\* once the task has ended
TaskAwaited(p) == p \in {"cancelled", "finished"}

\* lines 197-207: stop() on a running runner: is_running = False and
\* search_task.cancel(); CancelledError is no Exception, so none of the
\* except Exception handlers (lines 77, 126, 133, 143, 232) catches it: it
\* leaves process_listing at once and unwinds to the with block, or out of the
\* task when no session is open
Stop ==
    /\ is_running
    /\ stopper = "none"
    /\ pc \in AwaitPoints
    /\ pc = "pl_notify" => notifier
    /\ is_running' = FALSE
    /\ stopper' = "await_task"
    /\ pc' = IF pc \in InSession THEN "cancel_exit" ELSE "cancelled"
    /\ sleeping' = 0
    /\ call' = IF pc = "pl_notify"
                 THEN [call EXCEPT !.notify = "cancelled", !.result = "cancelled"]
                 ELSE call
    /\ notifications' = IF pc = "pl_notify"
                          THEN [notifications EXCEPT ![basic_info.listing_id] = @ + 1]
                          ELSE notifications
    /\ UNCHANGED <<store, processed_ids, notifier, consecutive_failures, stats,
                   scraper_retry_count, driver, target, listings_data, basic_info,
                   prev, cyc, cycles, visits, restarts, streak, pool>>
    /\ UNCHANGED outside

\* scraper.py 65-68 while CancelledError unwinds the with block: if
\* driver.quit() raises, its exception takes the place of CancelledError and is
\* caught at line 143: the cycle goes on with the next session attempt
CancelExit ==
    /\ pc = "cancel_exit"
    /\ \E r \in {"ok", "raised"} :
         IF r = "ok"
           THEN /\ driver' = Quit(driver)
                /\ pc' = "cancelled"
                /\ UNCHANGED <<scraper_retry_count, sleeping, cyc>>
           ELSE /\ ScraperFailed
                /\ cyc' = [cyc EXCEPT !.fault = TRUE]
    /\ UNCHANGED <<store, processed_ids, notifier, is_running, consecutive_failures,
                   stats, target, listings_data, basic_info, call, prev, cycles,
                   visits, restarts, streak, stopper, pool>>
    /\ UNCHANGED <<notifications, outside>>

\* line 222: while self.is_running: is false, the task returns
LoopExit ==
    /\ pc = "loop_while"
    /\ ~is_running
    /\ pc' = "finished"
    /\ UNCHANGED <<store, processed_ids, notifier, is_running, consecutive_failures,
                   sleeping, stats, scraper_retry_count, driver, target,
                   listings_data, basic_info, call, prev, cyc, cycles, visits,
                   restarts, streak, stopper, pool>>
    /\ UNCHANGED <<notifications, outside>>

\* lines 208-215: the awaited task has ended: self.db_manager.close()
StopReturn ==
    /\ stopper = "await_task"
    /\ TaskAwaited(pc)
    /\ pool' = "closed"
    /\ stopper' = "returned"
    /\ UNCHANGED <<store, processed_ids, notifier, is_running, pc,
                   consecutive_failures, sleeping, stats, scraper_retry_count,
                   driver, target, listings_data, basic_info, call, prev, cyc,
                   cycles, visits, restarts, streak>>
    /\ UNCHANGED <<notifications, outside>>

\* the process is restarted: everything in memory is rebuilt, the table is kept
Restart ==
    /\ restarts < MaxRestarts
    /\ pc # "idle"
    /\ restarts' = restarts + 1
    /\ processed_ids' = {}
    /\ is_running' = FALSE
    /\ pc' = "idle"
    /\ consecutive_failures' = 0
    /\ sleeping' = 0
    /\ stats' = ZeroStats
    /\ scraper_retry_count' = 0
    /\ driver' = "none"
    /\ target' = 0
    /\ listings_data' = <<>>
    /\ basic_info' = NoInfo
    /\ call' = NoCall
    /\ cyc' = ZeroCyc
    /\ stopper' = "none"
    /\ pool' = "open"
    /\ UNCHANGED <<store, notifier, cycles, visits, prev, streak>>
    /\ UNCHANGED <<notifications, outside>>

\* the service as constructed: ApartmentService.__init__ (service.py 26-31) and
\* ApartmentSearchRunner.__init__ (166-183), the table empty
ServiceInit ==
    /\ store = [i \in Ids |-> NoRow]
    /\ processed_ids = {}
    /\ notifier \in BOOLEAN
    /\ is_running = FALSE
    /\ pc = "idle"
    /\ consecutive_failures = 0
    /\ sleeping = 0
    /\ stats = ZeroStats
    /\ scraper_retry_count = 0
    /\ driver = "none"
    /\ target = 0
    /\ listings_data = <<>>
    /\ basic_info = NoInfo
    /\ call = NoCall
    /\ prev = 0
    /\ cyc = ZeroCyc
    /\ cycles = 0
    /\ visits = 0
    /\ restarts = 0
    /\ streak = 0
    /\ notifications = [i \in Ids |-> 0]
    /\ stopper = "none"
    /\ pool = "open"

\* check_search_results is not being run on its own
ScraperIdle ==
    /\ listing_articles = <<>>
    /\ article = 0
    /\ collected = <<>>
    /\ scraper_pc = "idle"

NoLog == [invoked |-> 0, waits |-> 0, waited |-> 0, result |-> "none"]

\* the retry wrapper is not being run on its own
RetryIdle ==
    /\ outcomes = <<>>
    /\ attempt = 0
    /\ last_exception = "none"
    /\ retry_pc = "idle"
    /\ retry_log = NoLog

NoOp == [name |-> "none", id |-> 0]

\* the table with no rows
EmptyTable == [i \in Ids |-> NoRow]

NoRepoLog == [before |-> EmptyTable, failed |-> "none", rollback |-> "none",
              closed |-> "none", result |-> "none"]

\* no repository operation is being run on its own
RepoIdle ==
    /\ used = 0
    /\ repo_pc = "idle"
    /\ op = NoOp
    /\ txn = EmptyTable
    /\ repo_log = NoRepoLog

NoMessage == [location |-> "none", price |-> "none", size |-> "none",
              rooms |-> "none", url |-> 0]

NoSend == [primary |-> "none", fallback |-> "none", posts |-> 0, result |-> "none"]

\* no TelegramNotifier is being run on its own
NotifierIdle ==
    /\ bot_token = FALSE
    /\ chat_id = FALSE
    /\ bot = "none"
    /\ use_fallback = FALSE
    /\ message = NoMessage
    /\ notify_pc = "idle"
    /\ notify_log = NoSend

\* the environment with nothing set
NoEnv == [DATABASE_URL |-> "unset", TELEGRAM_BOT_TOKEN |-> "unset",
          TELEGRAM_CHAT_IDS |-> "unset"]

\* startup is not being run on its own
StartupIdle ==
    /\ env = NoEnv
    /\ boot_pc = "idle"
    /\ boot_failed = "none"

LifecycleIdle ==
    /\ tasks = [t \in 1..MaxTasks |-> "none"]
    /\ search_task = 0
    /\ awaited = {}
    /\ last_call = "none"
    /\ ignored = {}

Init ==
    /\ ServiceInit
    /\ ScraperIdle
    /\ RetryIdle
    /\ RepoIdle
    /\ NotifierIdle
    /\ StartupIdle
    /\ LifecycleIdle

Next ==
    \/ Start
    \/ StartCycle
    \/ SessionInit
    \/ Sleep10Done
    \/ CheckSearchResults
    \/ Gate
    \/ Fetch
    \/ Save
    \/ Notify
    \/ Mark
    \/ Except
    \/ Sleep1Done
    \/ Sleep2Done
    \/ SessionExit
    \/ CycleReturn
    \/ LoopSleepDone
    \/ Restart

Spec == Init /\ [][Next]_vars

\* the pipeline with stop() called on the running runner
StopNext ==
    \/ Next
    \/ Stop
    \/ CancelExit
    \/ LoopExit
    \/ StopReturn

StopSpec == Init /\ [][StopNext]_vars

\* the steps of the search task (search_apartments and _search_loop)
TaskNext ==
    \/ Gate
    \/ Fetch
    \/ Save
    \/ Notify
    \/ Mark
    \/ Except
    \/ SessionInit
    \/ Sleep10Done
    \/ CheckSearchResults
    \/ Sleep1Done
    \/ Sleep2Done
    \/ SessionExit
    \/ StartCycle
    \/ CycleReturn
    \/ LoopSleepDone
    \/ CancelExit
    \/ LoopExit

\* the event loop keeps running the search task and the coroutine of stop()
\* for as long as the process lives
FairSpec == StopSpec /\ WF_vars(TaskNext) /\ WF_vars(StopReturn)

\* the cap on the pages fetched has stopped the task of the model
VisitCapReached == pc = "target" /\ target <= Len(SEARCH_URLS) /\ visits >= MaxVisits

----------------------------------------------------------------------------
(* _search_loop on its own: search_apartments is a call that returns or     *)
(* lets an exception escape (service.py 222-246)                            *)

\* lines 222-241: one search cycle and the handling of its outcome
RunCycle ==
    /\ pc = "loop_while"
    /\ is_running
    /\ cycles < MaxLoopCycles
    /\ cycles' = cycles + 1
    /\ \E outcome \in {"returned", "raised"} :
         /\ AfterCycle(outcome)
         /\ streak' = IF outcome = "raised" THEN streak + 1 ELSE 0
    /\ UNCHANGED <<store, processed_ids, notifier, is_running, stats,
                   scraper_retry_count, driver, target, listings_data, basic_info,
                   call, prev, cyc, visits, restarts>>
    /\ UNCHANGED <<stopper, pool, notifications, outside>>

\* the loop ends after the long break
AfterBackoffExit == "finished"

\* the long break stands for the wait between the cycles
AfterBackoffNoWait == "loop_while"

\* lines 240-246: after the long break the loop body goes on to the normal wait
AfterBackoff == "loop_sleep"

\* lines 240-241: the long break is over: consecutive_failures = 0, then line 246
BackoffDone ==
    /\ pc = "loop_backoff"
    /\ consecutive_failures' = 0
    /\ pc' = AfterBackoff
    /\ sleeping' = CHECK_INTERVAL
    /\ UNCHANGED <<store, processed_ids, notifier, is_running, stats,
                   scraper_retry_count, driver, target, listings_data, basic_info,
                   call, prev, cyc, cycles, visits, restarts, streak>>
    /\ UNCHANGED <<stopper, pool, notifications, outside>>

LoopNext ==
    \/ Start
    \/ RunCycle
    \/ BackoffDone
    \/ LoopSleepDone

LoopSpec == Init /\ [][LoopNext]_vars

\* one run of the process with both kinds of cycle: the cycle of
\* search_apartments step by step, and a cycle as the loop sees it (returned,
\* or an exception escaped)
RunnerNext ==
    \/ Start
    \/ TaskNext
    \/ RunCycle
    \/ BackoffDone
    \/ Stop
    \/ StopReturn

\* the event loop keeps running the search task and the coroutine of stop()
RunnerSpec ==
    /\ Init
    /\ [][RunnerNext]_vars
    /\ WF_vars(TaskNext \/ RunCycle \/ BackoffDone)
    /\ WF_vars(StopReturn)

----------------------------------------------------------------------------------------------------------------------------------------
(* service.py: one call of search_apartments from its start to its return,  *)
(* with as many results pages as its session attempts can ask for           *)

\* a cycle fetches each url at most once per session attempt
MaxCycleVisits == max_scraper_retries * NumTargets

\* line 222: the first cycle of the loop
FirstCycle == StartCycle /\ cycles = 0

CheckSearchResultsInCycle == Visit(MaxCycleVisits)

\* the steps of search_apartments and of the loop around it
CycleTask ==
    \/ FirstCycle
    \/ SessionInit
    \/ Sleep10Done
    \/ CheckSearchResultsInCycle
    \/ Gate
    \/ Fetch
    \/ Save
    \/ Notify
    \/ Mark
    \/ Except
    \/ Sleep1Done
    \/ Sleep2Done
    \/ SessionExit
    \/ CycleReturn
    \/ LoopSleepDone

CycleNext ==
    \/ Start
    \/ CycleTask

\* the service as constructed, with a notifier
CycleInit == Init /\ notifier

\* the event loop keeps running the search task; every call it makes returns
\* or raises
CycleSpec == CycleInit /\ [][CycleNext]_vars /\ WF_vars(CycleTask)

----------------
(* scraper.py: ApartmentScraper.check_search_results on its own: the results *)
(* page is the input, one step per article of the for loop                   *)

\* An article element of the results page: its data-adid and data-href
\* attributes (0: missing or empty), what extracting its fields meets:
\*   "complete"  every field is found and parses
\*   "missing"   a wait times out / an element is gone (handler of line 239)
\*   "bad"       a text does not parse, float('') raises (handler of line 243)
\* and its optional fields price, size and rooms:
\*   "ok"        the element is there and its text is a number
\*   "absent"    the element (the tag) is not in the article
\*   "bad"       the text holds no number, e.g. a price of "VB"
Articles == [adid : {0} \cup Ids, href : {0, 1}, info : {"complete", "missing", "bad"},
             price : {"ok"}, size : {"ok"}, rooms : {"ok"}]

ResultPages == UNION {[1..n -> Articles] : n \in 0..MaxArticles}

\* lines 169-176 with the test of data-href left out
HasAttributesIdOnly(a) == a.adid # 0

\* lines 169-176: if not listing_id: continue; if not listing_path: continue
HasAttributes(a) == a.adid # 0 /\ a.href # 0

\* lines 204-209: wait.until for the price element raises TimeoutException
\* when it is absent; float() of a text without a number raises ValueError
PriceExtracted(a) == a.price = "ok"

\* lines 211-221: a simpletag that is absent leaves the field None; float() of
\* a tag text without a number raises ValueError
TagExtracted(f) == f # "bad"

\* lines 195-245: listings_data.append(basic_info) is reached: no wait timed
\* out and nothing raised (the handlers of lines 239 and 243 both continue)
Extracted(a) ==
    /\ a.info = "complete"
    /\ PriceExtracted(a)
    /\ TagExtracted(a.size)
    /\ TagExtracted(a.rooms)

\* the value of an optional field in the dict: a number, or None
FieldOf(f) == IF f = "ok" THEN "number" ELSE "None"

\* lines 178-221: the dict built for an article
BasicInfoOf(a) ==
    [listing_id |-> a.adid, url |-> a.href, price |-> FieldOf(a.price),
     size |-> FieldOf(a.size), rooms |-> FieldOf(a.rooms)]

\* lines 125-163: load the page, look for "keine Ergebnisse", the results
\* container and its articles; every way out but the last returns []
LoadResults ==
    /\ scraper_pc = "load"
    /\ \E r \in {"results", "no_results", "no_container", "raised"} :
         IF r = "results" /\ listing_articles # <<>>
           THEN scraper_pc' = "collect" /\ article' = 1
           ELSE scraper_pc' = "returned" /\ article' = 0
    /\ UNCHANGED <<listing_articles, collected>>
    /\ UNCHANGED <<pipeline, lifecycleVars, retryVars, repoVars, notifierVars, startupVars>>

\* lines 166-245: one pass of the for loop; after the last article, line 251
CollectArticle ==
    /\ scraper_pc = "collect"
    /\ article <= Len(listing_articles)
    /\ LET a == listing_articles[article]
       IN collected' = IF HasAttributes(a) /\ Extracted(a)
                         THEN Append(collected, BasicInfoOf(a))
                         ELSE collected
    /\ article' = article + 1
    /\ scraper_pc' = IF article = Len(listing_articles) THEN "returned" ELSE "collect"
    /\ UNCHANGED listing_articles
    /\ UNCHANGED <<pipeline, lifecycleVars, retryVars, repoVars, notifierVars, startupVars>>

ScrapeInit ==
    /\ ServiceInit
    /\ LifecycleIdle
    /\ StartupIdle
    /\ NotifierIdle
    /\ RetryIdle
    /\ RepoIdle
    /\ listing_articles \in ResultPages
    /\ article = 0
    /\ collected = <<>>
    /\ scraper_pc = "load"

ScrapeNext ==
    \/ LoadResults
    \/ CollectArticle

ScrapeSpec == ScrapeInit /\ [][ScrapeNext]_vars

\* check_search_results on pages whose articles all have their id and url and
\* differ in their optional fields
FieldArticles == [adid : Ids, href : {1}, info : {"complete"},
                  price : {"ok", "absent", "bad"}, size : {"ok", "absent", "bad"},
                  rooms : {"ok", "absent", "bad"}]

FieldPages == UNION {[1..n -> FieldArticles] : n \in 1..MaxFieldArticles}

FieldsInit ==
    /\ ServiceInit
    /\ LifecycleIdle
    /\ StartupIdle
    /\ NotifierIdle
    /\ RetryIdle
    /\ RepoIdle
    /\ listing_articles \in FieldPages
    /\ article = 0
    /\ collected = <<>>
    /\ scraper_pc = "load"

FieldsSpec == FieldsInit /\ [][ScrapeNext]_vars

----------------------------------------------------------------------------
(* utils.py: retry, as applied to get_full_listing_description               *)
(* (@retry(max_retries=3, delay=2), scraper.py 82): the outcomes of the      *)
(* wrapped function's calls are the input, one step per call and per wait    *)

\* what one call of get_full_listing_description (scraper.py 83-118) meets:
\*   "text"     a non-empty description is returned (line 106)
\*   "empty"    the description is empty: None is returned (line 118)
\*   "timeout", "stale", "error"   the exception is re-raised (lines 108-116)
FetchOutcomes == {"text", "empty", "timeout", "stale", "error"}

Failure(o) == o \in {"timeout", "stale", "error"}

\* for attempt in range(max_retries): the first call counted as a retry
AttemptsNoExtra(n) == 0..(n - 1)

\* utils.py line 40: for attempt in range(max_retries + 1)
Attempts(n) == 0..n

\* utils.py lines 40 and 53-54: the next pass of the loop, or raise last_exception
NextAttempt(log) ==
    IF attempt + 1 \in Attempts(max_retries)
      THEN /\ attempt' = attempt + 1
           /\ retry_pc' = "call"
           /\ retry_log' = log
      ELSE /\ attempt' = attempt
           /\ retry_pc' = "raised"
           /\ retry_log' = [log EXCEPT !.result = last_exception']

\* utils.py lines 41-51: return func(*args, **kwargs), or catch its exception
RetryCall ==
    /\ retry_pc = "call"
    /\ retry_log.invoked < Len(outcomes)
    /\ LET o   == outcomes[retry_log.invoked + 1]
           log == [retry_log EXCEPT !.invoked = @ + 1]
       IN IF Failure(o)
            THEN /\ last_exception' = o
                 /\ IF attempt < max_retries
                      THEN /\ retry_pc' = "sleep"
                           /\ retry_log' = log
                           /\ UNCHANGED attempt
                      ELSE NextAttempt(log)
            ELSE /\ retry_pc' = "returned"
                 /\ retry_log' = [log EXCEPT !.result = IF o = "text" THEN "text" ELSE "None"]
                 /\ UNCHANGED <<attempt, last_exception>>
    /\ UNCHANGED outcomes
    /\ UNCHANGED <<pipeline, lifecycleVars, scraperVars, repoVars, notifierVars, startupVars>>

\* utils.py line 49: time.sleep(delay) is over
RetrySleepDone ==
    /\ retry_pc = "sleep"
    /\ UNCHANGED <<outcomes, last_exception>>
    /\ NextAttempt([retry_log EXCEPT !.waits = @ + 1, !.waited = @ + delay])
    /\ UNCHANGED <<pipeline, lifecycleVars, scraperVars, repoVars, notifierVars, startupVars>>

RetryInit ==
    /\ ServiceInit
    /\ LifecycleIdle
    /\ StartupIdle
    /\ NotifierIdle
    /\ ScraperIdle
    /\ RepoIdle
    /\ outcomes \in [1..MaxFetchCalls -> FetchOutcomes]
    /\ attempt = 0
    /\ last_exception = "none"
    /\ retry_pc = "call"
    /\ retry_log = NoLog

RetryNext ==
    \/ RetryCall
    \/ RetrySleepDone

RetrySpec == RetryInit /\ [][RetryNext]_vars

----------------------------------------------------------------------------
(* database.py: a ListingRepository operation on its own, step by step       *)
(* through the context managers get_connection (20-27) and get_cursor (29-41) *)

Operations == {"save_listing", "listing_exists", "mark_listing_processed",
               "mark_listing_error", "get_listings"}

Writes == {"save_listing", "mark_listing_processed", "mark_listing_error"}

\* what the statement of an operation makes of the table (database.py 64-72,
\* 79-82, 88-91, 96-99, 113-114)
Statement(name, s, id) ==
    CASE name = "save_listing" ->
             save_listing(s, [listing_id |-> id, description |-> "preview",
                              status |-> "suitable"])
      [] name = "mark_listing_processed" -> mark_listing_processed(s, id)
      [] name = "mark_listing_error" -> mark_listing_error(s, id)
      [] OTHER -> s

\* putconn only after a block that did not raise
ReleasedOnSuccessOnly(failed) == ~failed

\* get_connection, lines 24-27: try: yield conn  finally: self._pool.putconn(conn)
Released(failed) == TRUE

\* the exception caught, rolled back and dropped
ReraisedNever(failed) == FALSE

\* get_cursor, lines 37-39: except Exception: conn.rollback(); raise
Reraised(failed) == failed

\* with self.db_manager.get_cursor() as cursor: conn = self._pool.getconn()
\* (line 23): a pool with max_connections out raises PoolError
RepoCall ==
    /\ repo_pc = "idle"
    /\ \E name \in Operations, id \in Ids, r \in {"ok", "raised"} :
         /\ op' = [name |-> name, id |-> id]
         /\ IF used >= max_connections
              THEN /\ repo_log' = [NoRepoLog EXCEPT !.before = store,
                                       !.failed = "exhausted", !.result = "raised"]
                   /\ UNCHANGED <<used, repo_pc>>
              ELSE IF r = "raised"
                THEN /\ repo_log' = [NoRepoLog EXCEPT !.before = store,
                                         !.failed = "getconn", !.result = "raised"]
                     /\ UNCHANGED <<used, repo_pc>>
                ELSE /\ repo_log' = [NoRepoLog EXCEPT !.before = store,
                                         !.result = "pending"]
                     /\ used' = used + 1
                     /\ repo_pc' = "cursor"
    /\ txn' = store
    /\ UNCHANGED <<pipeline, lifecycleVars, scraperVars, retryVars, notifierVars, startupVars>>

\* line 33: cursor = conn.cursor(), before the try of get_cursor
OpenCursor ==
    /\ repo_pc = "cursor"
    /\ \E r \in {"ok", "raised"} :
         IF r = "ok"
           THEN repo_pc' = "execute" /\ UNCHANGED repo_log
           ELSE /\ repo_pc' = "putconn"
                /\ repo_log' = [repo_log EXCEPT !.failed = "cursor"]
    /\ UNCHANGED <<used, op, txn>>
    /\ UNCHANGED <<pipeline, lifecycleVars, scraperVars, retryVars, notifierVars, startupVars>>

\* line 35, yield cursor: the body of the with block: cursor.execute(...) and
\* what the operation reads back; a second INSERT of a listing_id raises
Execute ==
    /\ repo_pc = "execute"
    /\ \E r \in {"ok", "raised"} :
         /\ (op.name = "save_listing" /\ UniqueViolation(store, op.id)) => r = "raised"
         /\ IF r = "ok"
              THEN /\ txn' = Statement(op.name, store, op.id)
                   /\ repo_pc' = "commit"
                   /\ UNCHANGED repo_log
              ELSE /\ repo_pc' = "rollback"
                   /\ repo_log' = [repo_log EXCEPT !.failed = "execute"]
                   /\ UNCHANGED txn
    /\ UNCHANGED <<used, op>>
    /\ UNCHANGED <<pipeline, lifecycleVars, scraperVars, retryVars, notifierVars, startupVars>>

\* line 36: conn.commit()
Commit ==
    /\ repo_pc = "commit"
    /\ \E r \in {"ok", "raised"} :
         IF r = "ok"
           THEN /\ store' = txn
                /\ repo_pc' = "close"
                /\ UNCHANGED repo_log
           ELSE /\ repo_pc' = "rollback"
                /\ repo_log' = [repo_log EXCEPT !.failed = "commit"]
                /\ UNCHANGED store
    /\ UNCHANGED <<used, op, txn>>
    /\ UNCHANGED <<service, lifecycleVars, scraperVars, retryVars, notifierVars, startupVars>>

\* lines 37-39: except Exception: conn.rollback(); raise
Rollback ==
    /\ repo_pc = "rollback"
    /\ \E r \in {"ok", "raised"} :
         repo_log' = [repo_log EXCEPT !.rollback = r]
    /\ txn' = store
    /\ repo_pc' = "close"
    /\ UNCHANGED <<used, op>>
    /\ UNCHANGED <<pipeline, lifecycleVars, scraperVars, retryVars, notifierVars, startupVars>>

\* lines 40-41: finally: cursor.close()
CloseCursor ==
    /\ repo_pc = "close"
    /\ \E r \in {"ok", "raised"} :
         repo_log' = [repo_log EXCEPT !.closed = r]
    /\ repo_pc' = "putconn"
    /\ UNCHANGED <<used, op, txn>>
    /\ UNCHANGED <<pipeline, lifecycleVars, scraperVars, retryVars, notifierVars, startupVars>>

\* lines 26-27: finally: self._pool.putconn(conn); the operation returns, or the
\* exception in flight reaches its caller
PutConn ==
    /\ repo_pc = "putconn"
    /\ LET failed == repo_log.failed # "none"
           raised == Reraised(failed) \/ repo_log.closed = "raised"
       IN /\ used' = IF Released(raised) THEN used - 1 ELSE used
          /\ repo_log' = [repo_log EXCEPT !.result = IF raised THEN "raised"
                                                                ELSE "returned"]
    /\ repo_pc' = "idle"
    /\ UNCHANGED <<op, txn>>
    /\ UNCHANGED <<pipeline, lifecycleVars, scraperVars, retryVars, notifierVars, startupVars>>

RepoInit ==
    /\ ServiceInit
    /\ LifecycleIdle
    /\ StartupIdle
    /\ ScraperIdle
    /\ RetryIdle
    /\ RepoIdle
    /\ NotifierIdle

RepoNext ==
    \/ RepoCall
    \/ OpenCursor
    \/ Execute
    \/ Commit
    \/ Rollback
    \/ CloseCursor
    \/ PutConn

RepoSpec == RepoInit /\ [][RepoNext]_vars

----------------------------------------------------------------------------
(* notifier.py: TelegramNotifier.send_notification on its own; the notifier   *)
(* is used for one message after the other and keeps _bot and use_fallback    *)

\* the fields of a listing the message shows: the key absent from the dict,
\* present with None, or present with a value; the url is always there
Field == {"absent", "null", "value"}

ListingDetails == [location : Field, price : Field, size : Field, rooms : Field,
                   url : {1}]

\* dict.get(key, 'Keine Angabe'): the default only stands in for an absent key
Get(v) == IF v = "absent" THEN "Keine Angabe" ELSE v

\* lines 91-100: format_listing_message
format_listing_message(d) ==
    [location |-> Get(d.location), price |-> Get(d.price), size |-> Get(d.size),
     rooms |-> Get(d.rooms), url |-> d.url]

\* lines 102-105: send_listing_notification formats the listing and calls
\* send_notification
SendListingNotification ==
    /\ notify_pc = "idle"
    /\ \E d \in ListingDetails : message' = format_listing_message(d)
    /\ notify_pc' = "send"
    /\ notify_log' = [NoSend EXCEPT !.result = "pending"]
    /\ UNCHANGED <<bot_token, chat_id, bot, use_fallback>>
    /\ UNCHANGED <<pipeline, lifecycleVars, scraperVars, retryVars, repoVars, startupVars>>

\* lines 68-89: _send_notification_fallback left to run
ToFallback(log) ==
    /\ notify_pc' = "fallback"
    /\ notify_log' = log

\* lines 43-52: the tests before the try, with the lazy bot property (31-41):
\* Bot(self.bot_token) is built on first use; if that raises, use_fallback is set
SendNotification ==
    /\ notify_pc = "send"
    /\ IF use_fallback \/ ~bot_token \/ ~chat_id
         THEN /\ ToFallback(notify_log)
              /\ UNCHANGED <<bot, use_fallback>>
         ELSE \E r \in {"ok", "raised"} :
                /\ bot = "built" => r = "ok"
                /\ IF r = "ok"
                     THEN /\ bot' = "built"
                          /\ notify_pc' = "primary"
                          /\ UNCHANGED <<use_fallback, notify_log>>
                     ELSE /\ use_fallback' = TRUE
                          /\ ToFallback([notify_log EXCEPT !.primary = "unavailable"])
                          /\ UNCHANGED bot
    /\ UNCHANGED <<bot_token, chat_id, message>>
    /\ UNCHANGED <<pipeline, lifecycleVars, scraperVars, retryVars, repoVars, startupVars>>

\* lines 54-66: await self.bot.send_message(...); only TelegramError is caught
Primary ==
    /\ notify_pc = "primary"
    /\ \E r \in {"ok", "TelegramError", "Exception"} :
         CASE r = "ok" ->
                /\ notify_pc' = "idle"
                /\ notify_log' = [notify_log EXCEPT !.primary = r, !.result = "True"]
           [] r = "TelegramError" ->
                ToFallback([notify_log EXCEPT !.primary = r])
           [] OTHER ->
                /\ notify_pc' = "idle"
                /\ notify_log' = [notify_log EXCEPT !.primary = r, !.result = "raised"]
    /\ UNCHANGED <<bot_token, chat_id, bot, use_fallback, message>>
    /\ UNCHANGED <<pipeline, lifecycleVars, scraperVars, retryVars, repoVars, startupVars>>

\* lines 68-89: requests.post(...) and raise_for_status(); only
\* requests.RequestException is caught
Fallback ==
    /\ notify_pc = "fallback"
    /\ notify_pc' = "idle"
    /\ IF ~bot_token \/ ~chat_id
         THEN notify_log' = [notify_log EXCEPT !.result = "False"]
         ELSE \E r \in {"ok", "RequestException", "Exception"} :
                notify_log' = [notify_log EXCEPT
                    !.fallback = r,
                    !.posts = @ + 1,
                    !.result = CASE r = "ok" -> "True"
                                 [] r = "RequestException" -> "False"
                                 [] OTHER -> "raised"]
    /\ UNCHANGED <<bot_token, chat_id, bot, use_fallback, message>>
    /\ UNCHANGED <<pipeline, lifecycleVars, scraperVars, retryVars, repoVars, startupVars>>

\* TelegramNotifier.__init__ (lines 24-29), with or without its credentials
NotifierInit ==
    /\ ServiceInit
    /\ LifecycleIdle
    /\ StartupIdle
    /\ ScraperIdle
    /\ RetryIdle
    /\ RepoIdle
    /\ bot_token \in BOOLEAN
    /\ chat_id \in BOOLEAN
    /\ bot = "none"
    /\ use_fallback = FALSE
    /\ message = NoMessage
    /\ notify_pc = "idle"
    /\ notify_log = NoSend

NotifierNext ==
    \/ SendListingNotification
    \/ SendNotification
    \/ Primary
    \/ Fallback

NotifierSpec == NotifierInit /\ [][NotifierNext]_vars

----------------------------------------------------------------------------
(* Startup on its own: the module config is imported (Config(), config.py    *)
(* 92-102), ApartmentSearchApp() builds the runner with its pool and its     *)
(* notifier (app.py 27-35, service.py 166-183), app.start() starts the loop  *)

\* the environment: a variable is unset, empty or has a value;
\* TELEGRAM_CHAT_IDS is a comma-separated text, here the sequence of its parts
\* (" ": a blank part)
Settings == [DATABASE_URL : {"unset", "", "postgres"},
             TELEGRAM_BOT_TOKEN : {"unset", "", "token"},
             TELEGRAM_CHAT_IDS : {"unset", <<>>, <<" ">>, <<"7">>, <<"7", " ">>,
                                  <<"7", "8">>}]

\* os.getenv(name, '') (config.py 57, 62, 66)
Getenv(v, default) == IF v = "unset" THEN default ELSE v

DATABASE_URL(e) == Getenv(e.DATABASE_URL, "")

TELEGRAM_BOT_TOKEN(e) == Getenv(e.TELEGRAM_BOT_TOKEN, "")

NonBlank(x) == x # " "

\* config.py 59-63: [id.strip() for id in chat_ids.split(',') if id.strip()]
TELEGRAM_CHAT_IDS(e) == SelectSeq(Getenv(e.TELEGRAM_CHAT_IDS, <<>>), NonBlank)

\* the attributes a Config object has (config.py 13-90)
ConfigAttributes == {"SEARCH_CONFIG", "NEGATIVE_KEYWORDS", "SEARCH_URLS",
                     "TELEGRAM_BOT_TOKEN", "TELEGRAM_CHAT_IDS", "DATABASE_URL",
                     "CHECK_INTERVAL", "PAGE_LOAD_TIMEOUT", "ELEMENT_TIMEOUT",
                     "HEADLESS_MODE", "PREDEFINED_TEXT"}

\* notifier.py 211 (and app.py 34): config.TELEGRAM_BOT_TOKEN and
\* config.TELEGRAM_CHAT_ID; the second operand is only evaluated when the token
\* is not empty, and reading an attribute the object has not raises
\* AttributeError
CredentialsTest(e) ==
    IF TELEGRAM_BOT_TOKEN(e) = ""
      THEN "false"
      ELSE IF "TELEGRAM_CHAT_ID" \in ConfigAttributes THEN "true" ELSE "AttributeError"

StartupFails(step) ==
    /\ boot_pc' = "failed"
    /\ boot_failed' = step

\* config.py 92-102: config = Config()
LoadConfig ==
    /\ boot_pc = "config"
    /\ IF DATABASE_URL(env) = ""
         THEN StartupFails("config")
         ELSE boot_pc' = "pool" /\ UNCHANGED boot_failed
    /\ UNCHANGED env
    /\ UNCHANGED <<pipeline, lifecycleVars, scraperVars, retryVars, repoVars, notifierVars>>

\* service.py 169-170 (database.py 12-18): the pool connects min_connections
\* times when it is built
CreatePool ==
    /\ boot_pc = "pool"
    /\ \E r \in {"ok", "raised"} :
         IF r = "ok"
           THEN boot_pc' = "notifier" /\ UNCHANGED boot_failed
           ELSE StartupFails("pool")
    /\ UNCHANGED env
    /\ UNCHANGED <<pipeline, lifecycleVars, scraperVars, retryVars, repoVars, notifierVars>>

\* service.py 173-179 (notifier.py 209-215): self.notifier = create_notifier()
CreateNotifier ==
    /\ boot_pc = "notifier"
    /\ CASE CredentialsTest(env) = "true" ->
              /\ notifier' = TRUE
              /\ boot_pc' = "app"
              /\ UNCHANGED boot_failed
         [] CredentialsTest(env) = "false" ->
              /\ notifier' = FALSE
              /\ boot_pc' = "app"
              /\ UNCHANGED boot_failed
         [] OTHER ->
              /\ StartupFails("notifier")
              /\ UNCHANGED notifier
    /\ UNCHANGED env
    /\ UNCHANGED <<store, runner, lifecycleVars, scraperVars, retryVars, repoVars, notifierVars>>

\* app.py 30-35 and 37-63: the same test decides about the TelegramBotService,
\* then app.start() calls search_runner.start()
StartApp ==
    /\ boot_pc = "app"
    /\ IF CredentialsTest(env) = "AttributeError"
         THEN StartupFails("app")
         ELSE boot_pc' = "started" /\ UNCHANGED boot_failed
    /\ UNCHANGED env
    /\ UNCHANGED <<pipeline, lifecycleVars, scraperVars, retryVars, repoVars, notifierVars>>

StartupInit ==
    /\ ServiceInit
    /\ LifecycleIdle
    /\ notifier = FALSE
    /\ ScraperIdle
    /\ RetryIdle
    /\ RepoIdle
    /\ NotifierIdle
    /\ env \in Settings
    /\ boot_pc = "config"
    /\ boot_failed = "none"

StartupNext ==
    \/ LoadConfig
    \/ CreatePool
    \/ CreateNotifier
    \/ StartApp

StartupSpec == StartupInit /\ [][StartupNext]_vars

----------------------------------------------------------------------------
(* service.py: ApartmentSearchRunner.start and stop on their own, called in  *)
(* any order, a call being free to arrive while a stop() awaits its task     *)
(* (service.py 185-215); the search tasks are seen from outside              *)

TaskIds == 1..MaxTasks

\* the tasks created so far that have not ended
AliveTasks == {t \in TaskIds : tasks[t] \in {"alive", "cancelling"}}

\* the number of tasks created so far
Created == Cardinality({t \in TaskIds : tasks[t] # "none"})

\* start() never refused: a task is created by every call
StartRefusedNever(r) == FALSE

\* lines 187-189: if self.is_running: return
StartRefused(r) == r

\* lines 199-201: if not self.is_running: return
StopRefused(r) == ~r

\* lines 185-195: start(): nothing when is_running, else is_running = True and
\* self.search_task = asyncio.create_task(self._search_loop())
RunnerStart ==
    /\ IF StartRefused(is_running)
         THEN /\ last_call' = "start_ignored"
              /\ ignored' = ignored \cup {"start"}
              /\ UNCHANGED <<is_running, tasks, search_task>>
         ELSE /\ Created < MaxTasks
              /\ is_running' = TRUE
              /\ tasks' = [tasks EXCEPT ![Created + 1] = "alive"]
              /\ search_task' = Created + 1
              /\ last_call' = "started"
              /\ UNCHANGED ignored
    /\ UNCHANGED <<awaited, pool>>
    /\ UNCHANGED lifecycleFrame

\* lines 197-209: stop(): nothing when not is_running, else is_running = False,
\* self.search_task.cancel(), and the call waits for the task
RunnerStop ==
    /\ IF StopRefused(is_running)
         THEN /\ last_call' = "stop_ignored"
              /\ ignored' = ignored \cup {"stop"}
              /\ UNCHANGED <<is_running, tasks, awaited>>
         ELSE /\ is_running' = FALSE
              /\ tasks' = [tasks EXCEPT ![search_task] =
                              IF @ = "alive" THEN "cancelling" ELSE @]
              /\ awaited' = awaited \cup {search_task}
              /\ last_call' = "stopping"
              /\ UNCHANGED ignored
    /\ UNCHANGED <<search_task, pool>>
    /\ UNCHANGED lifecycleFrame

\* CancelledError is raised at the await of the task and leaves it
TaskCancelled ==
    /\ \E t \in TaskIds :
         /\ tasks[t] = "cancelling"
         /\ tasks' = [tasks EXCEPT ![t] = "done"]
    /\ UNCHANGED <<is_running, search_task, awaited, last_call, ignored, pool>>
    /\ UNCHANGED lifecycleFrame

\* scraper.py 65-68 and service.py 143: driver.quit() raises while
\* CancelledError unwinds the with block; the handler catches that exception
\* and the task goes on
TaskSwallows ==
    /\ \E t \in TaskIds :
         /\ tasks[t] = "cancelling"
         /\ tasks' = [tasks EXCEPT ![t] = "alive"]
    /\ UNCHANGED <<is_running, search_task, awaited, last_call, ignored, pool>>
    /\ UNCHANGED lifecycleFrame

\* line 222: a task finds is_running false at its while test and returns
TaskLoopExit ==
    /\ ~is_running
    /\ \E t \in TaskIds :
         /\ tasks[t] = "alive"
         /\ tasks' = [tasks EXCEPT ![t] = "done"]
    /\ UNCHANGED <<is_running, search_task, awaited, last_call, ignored, pool>>
    /\ UNCHANGED lifecycleFrame

\* lines 208-215: the task a stop() waits for has ended: db_manager.close()
RunnerStopReturn ==
    /\ \E t \in awaited :
         /\ tasks[t] = "done"
         /\ awaited' = awaited \ {t}
    /\ pool' = "closed"
    /\ last_call' = "stopped"
    /\ UNCHANGED <<is_running, tasks, search_task, ignored>>
    /\ UNCHANGED lifecycleFrame

LifecycleInit ==
    /\ ServiceInit
    /\ ScraperIdle
    /\ RetryIdle
    /\ RepoIdle
    /\ NotifierIdle
    /\ StartupIdle
    /\ LifecycleIdle

LifecycleNext ==
    \/ RunnerStart
    \/ RunnerStop
    \/ TaskCancelled
    \/ TaskSwallows
    \/ TaskLoopExit
    \/ RunnerStopReturn

LifecycleSpec == LifecycleInit /\ [][LifecycleNext]_vars

----------------------------------------------------------------------------
(* Claims *)

CallDone == call.id # 0 /\ call.result # "pending"

Suitable(id) ==
    store[id].present /\ store[id].status = "suitable"

\* C1: two process_listing calls in a row for the same listing leave exactly one
\* row for it, and the second one returns False through the Skipped path, with
\* no fetch, save, notify or mark call.
C1_IdempotentDedup ==
    (CallDone /\ prev = call.id /\ call.gate # "raised" /\ call.markerr # "raised") =>
        /\ store[call.id].present
        /\ call.result = "False"
        /\ call.gate \in {"cached", "skipped"}
        /\ call.fetch = "none" /\ call.save = "none" /\ call.notify = "none"
        /\ call.mark = "none" /\ call.markerr = "none"

\* C2: save_listing is only ever invoked after the gate answered "not there" and
\* while the table has no row for the id; no INSERT hits the unique key.
C2_NoInsertForExistingRow ==
    /\ pc = "pl_save" =>
          /\ call.gate = "passed"
          /\ ~store[basic_info.listing_id].present
    /\ call.save # "unique"

C2_Witness ==
    /\ restarts > 0
    /\ call.save = "ok"
    /\ \E i \in Ids : i # call.id /\ store[i].present /\ prev = i

\* C3: when save_listing raised, process_listing leaves a row for the listing
\* with status 'error' and processed_at set.
C3_SaveErrorRecorded ==
    (CallDone /\ call.save = "raised" /\ call.markerr = "ok") =>
        /\ store[call.id].present
        /\ store[call.id].status = "error"
        /\ store[call.id].processed_at

\* C4: a listing whose save raised adds exactly 1 to errors and nothing to
\* processed; processed only grows for a call that returned True.
C4_ErrorCounters ==
    CallDone =>
        /\ call.save = "raised" => (call.dErrors = 1 /\ call.dProcessed = 0)
        /\ call.dProcessed > 0 => call.result = "True"

\* C5: when the notifier fails to deliver (returns False) for a saved listing,
\* mark_listing_processed is still invoked, and once it has run the id is in
\* the cache, the row is 'suitable' and process_listing returns True.
C5_NotifyFailureDoesNotBlock ==
    /\ call.notify = "false" => (pc = "pl_mark" \/ call.mark # "none")
    /\ (CallDone /\ call.notify = "false" /\ call.mark = "ok") =>
          /\ call.result = "True"
          /\ call.id \in processed_ids
          /\ Suitable(call.id)
          /\ store[call.id].processed_at

C5_Witness ==
    CallDone /\ call.notify = "false" /\ call.result = "True"

\* C6: whatever the notifier does (True, False, exception), a listing whose save
\* succeeded ends 'suitable' with processed_at set and process_listing returns
\* True.
C6_NotifyNeverChangesStatus ==
    (CallDone /\ call.save = "ok" /\ call.notify # "none" /\ call.mark # "raised"
        /\ call.markerr # "raised") =>
        /\ call.result = "True"
        /\ Suitable(call.id)
        /\ store[call.id].processed_at

\* C7: when the description fetch raises, the listing is still saved as
\* 'suitable', notified, marked processed, and process_listing returns True.
C7_FetchFailureSoftDegrade ==
    (CallDone /\ call.fetch = "raised" /\ call.save # "raised"
        /\ call.notify # "raised" /\ call.mark # "raised" /\ call.markerr # "raised") =>
        /\ call.result = "True"
        /\ call.save = "ok"
        /\ Suitable(call.id)

\* C8: a cycle in which nothing fails and that saw k listings, j of them already
\* in the table, returns total_found = k and processed = k - j, saves k - j rows
\* and makes k - j notification attempts.
C8_EndToEnd ==
    (pc = "cycle_return" /\ ~cyc.fault /\ notifier) =>
        /\ stats.processed = stats.total_found - cyc.existing
        /\ cyc.saved = stats.total_found - cyc.existing
        /\ cyc.notified = stats.total_found - cyc.existing

\* C9: when session initialisation throws on every attempt, the cycle makes
\* exactly 3 attempts with 2 waits of 10 in between and returns with all three
\* counters as they were (0).
C9_SessionRetryBound ==
    /\ pc = "sleep10" => sleeping = 10
    /\ (pc = "cycle_return" /\ ~cyc.inited) =>
          /\ cyc.attempts = 3
          /\ cyc.waits = 2
          /\ stats = ZeroStats

C9_Witness ==
    pc = "cycle_return" /\ ~cyc.inited /\ cyc.attempts = 3

\* C10: the cycle that makes 3 consecutive escaped exceptions is followed by a
\* sleep of 2 x CHECK_INTERVAL, after which consecutive_failures is 0; a 1st or
\* 2nd consecutive failure is followed by the normal sleep.
C10_BackoffTrigger ==
    /\ [][(streak' = streak + 1) =>
            IF streak' % 3 = 0
              THEN pc' = "loop_backoff" /\ sleeping' = 200
              ELSE pc' = "loop_sleep" /\ sleeping' = 100]_vars
    /\ [][(pc = "loop_backoff" /\ pc' # "loop_backoff") =>
            (consecutive_failures' = 0 /\ pc' = "loop_sleep")]_vars

C10_Witness ==
    pc = "loop_sleep" /\ streak = 3 /\ consecutive_failures = 0

\* an article with both attributes whose fields all extract
Complete(a) == a.adid # 0 /\ a.href # 0 /\ a.info = "complete"

\* exactly one article of the page lacks its listing id or its url, the others
\* are complete
OneLacking ==
    \E k \in 1..Len(listing_articles) :
        /\ listing_articles[k].adid = 0 \/ listing_articles[k].href = 0
        /\ \A j \in 1..Len(listing_articles) : j # k => Complete(listing_articles[j])

\* C11: for a results page of N articles of which exactly one lacks its
\* listing_id or url and the others are complete, check_search_results returns
\* exactly N - 1 listings; every listing it ever returns has a non-empty
\* listing_id and url.
C11_EntryScopedResilience ==
    scraper_pc = "returned" =>
        /\ \A i \in 1..Len(collected) :
              collected[i].listing_id # 0 /\ collected[i].url # 0
        /\ (article > 0 /\ OneLacking) => Len(collected) = Len(listing_articles) - 1

C11_Witness ==
    /\ scraper_pc = "returned"
    /\ article > MaxArticles
    /\ OneLacking
    /\ Len(collected) = MaxArticles - 1
    /\ \E k \in 1..MaxArticles : listing_articles[k].adid # 0 /\ listing_articles[k].href = 0

\* C12 as claimed: when every call of the page fetch fails,
\* get_full_listing_description has made exactly 3 calls with a wait of 2
\* seconds between them (2 waits) and raises the last failure.
C12_BoundedRetry ==
    retry_pc = "raised" =>
        /\ retry_log.invoked = 3
        /\ retry_log.waits = retry_log.invoked - 1
        /\ retry_log.waited = 2 * retry_log.waits
        /\ retry_log.result = outcomes[retry_log.invoked]

\* C12 as amended: when every call of the page fetch fails,
\* get_full_listing_description has made exactly 4 calls (the first and 3
\* retries) with a wait of 2 seconds between them (3 waits), and it ends by
\* raising the last failure, never by returning None.
C12_BoundedRetryFourCalls ==
    /\ retry_pc = "raised" =>
          /\ retry_log.invoked = 4
          /\ retry_log.waits = 3
          /\ retry_log.waited = 6
          /\ retry_log.result = outcomes[4]
    /\ (retry_pc \in {"returned", "raised"}
          /\ \A i \in 1..retry_log.invoked : Failure(outcomes[i])) => retry_pc = "raised"

C12_Witness ==
    /\ retry_pc = "raised"
    /\ retry_log.invoked = 4
    /\ retry_log.result = "stale"
    /\ outcomes[1] = "timeout"

\* C13: the gate of process_listing answers "exists" for a listing exactly when
\* the table has a row for it or the cache contains it, and it queries the
\* table only when the cache does not contain the listing.
C13_DedupGate ==
    /\ pc = "pl_fetch" =>
          /\ call.gate = "passed"
          /\ ~store[call.id].present
          /\ call.id \notin processed_ids
    /\ (pc = "sleep1" /\ call.gate \in {"cached", "skipped"}) =>
          /\ call.result = "False"
          /\ store[call.id].present \/ call.id \in processed_ids
    /\ (pc = "sleep1" /\ call.gate \in {"skipped", "raised"}) =>
          call.id \notin processed_ids
    /\ (pc = "sleep1" /\ call.gate = "cached") => call.id \in processed_ids

C13_Witness ==
    /\ pc = "sleep1"
    /\ call.gate = "cached"
    /\ \E i \in Ids : i # call.id /\ store[i].present /\ i \notin processed_ids

\* C14: every repository operation gives its connection back on every way
\* out (return, exception in cursor(), execute, commit, rollback or close):
\* between operations no connection is checked out, at most one is out at any
\* time, and the pool is never found exhausted.
C14_ConnectionRelease ==
    /\ used \in {0, 1}
    /\ repo_pc = "idle" => used = 0
    /\ repo_pc \in {"cursor", "execute", "commit", "rollback", "close", "putconn"} => used = 1
    /\ repo_log.failed # "exhausted"

C14_Witness ==
    /\ repo_pc = "idle"
    /\ used = 0
    /\ op.name = "mark_listing_error"
    /\ repo_log.failed = "commit"
    /\ repo_log.rollback = "raised"
    /\ repo_log.closed = "raised"
    /\ \E i \in Ids : store[i].present

\* C15: when execute or commit fails inside save_listing,
\* mark_listing_processed or mark_listing_error, rollback is called, the table
\* is as it was before the call, and the call raises.
C15_WriteFailureRaised ==
    (repo_pc = "idle" /\ op.name \in Writes /\ repo_log.failed \in {"execute", "commit"}) =>
        /\ repo_log.rollback # "none"
        /\ store = repo_log.before
        /\ repo_log.result = "raised"

C15_Witness ==
    /\ repo_pc = "idle"
    /\ op.name = "mark_listing_processed"
    /\ repo_log.failed = "commit"
    /\ repo_log.rollback = "ok"
    /\ repo_log.result = "raised"
    /\ store[op.id].present /\ ~store[op.id].processed_at

\* C16: send_notification of a notifier that has its credentials tries the bot
\* client first; when that fails (or the client cannot be built) it posts to
\* the HTTP fallback exactly once; it returns True when either delivery
\* succeeded and False when both failed, and it never raises.
C16_NotificationFallback ==
    (notify_pc = "idle" /\ notify_log.result \notin {"none", "pending"}
        /\ bot_token /\ chat_id) =>
        /\ notify_log.result \in {"True", "False"}
        /\ notify_log.primary = "ok" => notify_log.posts = 0
        /\ notify_log.primary # "ok" => notify_log.posts = 1
        /\ notify_log.result = "True" <=>
              (notify_log.primary = "ok" \/ notify_log.fallback = "ok")

\* C17: whatever settings are present or absent (the database being
\* reachable), startup fails exactly when DATABASE_URL is absent; when the bot
\* token or the chat ids are absent the application starts with no notifier.
C17_StartupConfiguration ==
    /\ (boot_pc = "failed" /\ boot_failed # "pool") =>
          env.DATABASE_URL \in {"unset", ""}
    /\ boot_pc = "started" =>
          /\ env.DATABASE_URL \notin {"unset", ""}
          /\ (env.TELEGRAM_BOT_TOKEN \in {"unset", ""}
                \/ env.TELEGRAM_CHAT_IDS \in {"unset", <<>>, <<" ">>}) => ~notifier

\* C18: stop() does not interrupt a step in flight: whenever stop() has
\* returned, a listing whose row was saved by the last process_listing call
\* (and whose marking did not itself fail) was carried through notification to
\* a final marking, so its row has processed_at set.
C18_StopDoesNotInterruptStep ==
    (stopper = "returned" /\ call.id # 0 /\ call.save = "ok"
        /\ call.markerr # "raised") =>
        /\ call.notify # "cancelled"
        /\ store[call.id].processed_at

\* C19: after stop() on a running runner no new search cycle is started and
\* the search task eventually ends; the pool is closed only after the task has
\* ended and the browser session has been quit; when stop() has returned the
\* pool is closed and no session is open.
C19_ShutdownOrder ==
    /\ [][stopper # "none" => cycles' = cycles]_vars
    /\ [](pool = "closed" => (driver = "none" /\ ~TaskAlive))
    /\ [](stopper = "returned" => (pool = "closed" /\ driver = "none"))
    /\ (stopper = "await_task") ~> (~TaskAlive \/ VisitCapReached)

C19_Witness ==
    /\ stopper = "returned"
    /\ call.notify = "cancelled"
    /\ pc = "cancelled"
    /\ pool = "closed"
    /\ driver = "none"

InCall == {"pl_gate", "pl_fetch", "pl_save", "pl_notify", "pl_mark", "pl_except"}

\* the step is one of the search task, not stop() and not a restart
TaskStep == pc' \notin {"idle", "cancel_exit", "cancelled"}

\* C20: within a session attempt every listing of every target is handed to
\* process_listing exactly once, whatever failed before: a call is made for
\* the head of the batch; however it ends, the next entry follows after the
\* pause, and the next target after the last entry; at the end of a target
\* the calls counted equal the listings found.
C20_FailureContainment ==
    /\ [](pc \in (InCall \ {"pl_gate"}) => call.id = Head(listings_data))
    /\ [][(pc \in InCall /\ pc' \notin InCall /\ TaskStep) =>
            (pc' = "sleep1" /\ call'.result # "pending"
                /\ listings_data' = listings_data)]_vars
    /\ [][(pc = "sleep1" /\ pc' # "sleep1" /\ TaskStep) =>
            /\ listings_data' = Tail(listings_data)
            /\ pc' = IF listings_data' = <<>> THEN "sleep2" ELSE "pl_gate"
            /\ target' = target]_vars
    /\ [][(pc = "sleep2" /\ pc' # "sleep2" /\ TaskStep) =>
            (pc' = "target" /\ target' = target + 1)]_vars
    /\ []((pc = "target" /\ stopper = "none") =>
            stats.total_found = stats.processed + stats.errors)

\* the batches of all targets have been gone through although two of the
\* calls raised
C20_Witness ==
    /\ pc = "target"
    /\ target > Len(SEARCH_URLS)
    /\ stopper = "none"
    /\ stats.total_found >= 3
    /\ stats.errors >= 2
    /\ stats.total_found = stats.processed + stats.errors

\* a cycle has been abandoned after 3 failed session attempts, or an exception
\* has escaped the last cycle (the 3rd in a row when the long break is taken)
CycleFailed ==
    \/ pc = "cycle_return" /\ RetriesExhausted(scraper_retry_count)
    \/ pc \in {"loop_sleep", "loop_backoff"} /\ streak > 0

\* C21: no cycle failure stops the service: after an abandoned cycle, an
\* escaped exception or the 3rd consecutive failure the runner is still
\* running and, unless stop() is called, the loop comes
\* back to its while test with is_running true, from where the only step of
\* the task is the start of a further cycle.
C21_LoopSurvivesFailures ==
    /\ []((CycleFailed /\ stopper = "none") => is_running)
    /\ CycleFailed ~> ((pc = "loop_while" /\ is_running) \/ stopper # "none")
    /\ [][(pc = "loop_while" /\ is_running /\ pc' # "loop_while") =>
            cycles' = cycles + 1]_vars

\* the loop is back at its while test after an abandoned cycle and its wait
C21_Witness ==
    /\ pc = "loop_while"
    /\ is_running
    /\ cycles = 1
    /\ RetriesExhausted(scraper_retry_count)
    /\ stopper = "none"

\* C22: between two consecutive cycles of one run of the loop the sleep of
\* CHECK_INTERVAL takes place: a cycle starts only at the while test, which
\* is reached (after start()) only by the end of a sleep of CHECK_INTERVAL;
\* every cycle, returned or failed, ends in that sleep or in the long break,
\* and the long break is followed by that sleep, not by the while test.
C22_IntervalBetweenCycles ==
    /\ [](pc = "idle" => cycles = 0)
    /\ [][cycles' = cycles + 1 =>
            (pc = "loop_while" /\ pc' \in {"session_init", "loop_sleep", "loop_backoff"})]_vars
    /\ [][(pc' = "loop_while" /\ pc # "loop_while") =>
            \/ pc = "idle"
            \/ pc = "loop_sleep" /\ sleeping = CHECK_INTERVAL]_vars
    /\ [][(pc = "cycle_return" /\ pc' # "cycle_return") =>
            (pc' = "loop_sleep" /\ sleeping' = CHECK_INTERVAL)]_vars
    /\ [][(pc = "loop_backoff" /\ pc' \notin {"loop_backoff", "cancelled"}) =>
            (pc' = "loop_sleep" /\ sleeping' = CHECK_INTERVAL)]_vars

\* the loop is back at its while test after three failed cycles: the long
\* break and then the sleep were taken
C22_Witness ==
    /\ pc = "loop_while"
    /\ is_running
    /\ cycles = 3
    /\ streak = 3
    /\ consecutive_failures = 0

\* C23: within a session attempt the urls are visited one at a time in their
\* configured order; every call of process_listing, however it ends, is
\* followed by a pause of 1 before the next listing, and every url, also one
\* without listings, by a pause of 2 before the next url is fetched.
C23_SequentialPacing ==
    /\ [][(pc \in InCall /\ pc' \notin InCall /\ TaskStep) =>
            (pc' = "sleep1" /\ sleeping' = 1)]_vars
    /\ [][(pc' = "pl_gate" /\ pc # "pl_gate") =>
            \/ pc = "target" /\ listings_data' # <<>>
            \/ pc = "sleep1" /\ sleeping = 1]_vars
    /\ [][(pc = "target" /\ target <= Len(SEARCH_URLS) /\ pc' # "target" /\ TaskStep) =>
            \/ pc' = "pl_gate"
            \/ pc' = "sleep2" /\ sleeping' = 2 /\ listings_data' = <<>>]_vars
    /\ [][(pc' = "sleep2" /\ pc # "sleep2") => sleeping' = 2]_vars
    /\ [][(pc' = "target" /\ pc # "target") =>
            \/ pc = "session_init" /\ target' = 1
            \/ pc = "sleep2" /\ sleeping = 2 /\ target' = target + 1]_vars
    /\ [][(target' # target /\ TaskStep) => pc' = "target"]_vars
    /\ [](pc \in (InCall \cup {"sleep1", "sleep2", "target"}) => target \in 1..(Len(SEARCH_URLS) + 1))

\* the second url is about to be fetched after the pause that followed a first
\* url without listings
C23_Witness ==
    /\ pc = "target"
    /\ target = 2
    /\ listings_data = <<>>
    /\ stats.total_found = 0
    /\ cyc.inited

\* C24: whatever start() and stop() calls are made, at most one search task
\* is alive at any time.
C24_SingleWorker == Cardinality(AliveTasks) <= 1

\* C25: the steps of process_listing come in order: save_listing only after the
\* existence check was false and the description fetch returned; the
\* notification only after save_listing committed; mark_listing_processed and
\* the cache insertion only after the notification step (when there is a
\* notifier); and a call that returned True leaves a row with status
\* 'suitable' and processed_at set, and its id in the cache.
C25_ListingOrdering ==
    /\ [](call.save # "none" => (call.gate = "passed" /\ call.fetch \in {"full", "empty"}))
    /\ [](pc = "pl_save" => ~listing_exists(store, call.id))
    /\ [](call.notify # "none" => call.save = "ok")
    /\ [](call.mark # "none" =>
            (call.save = "ok" /\ (notifier => call.notify \in {"true", "false"})))
    /\ [][(processed_ids' # processed_ids /\ pc' # "idle") =>
            /\ pc = "pl_mark"
            /\ call'.mark = "ok"
            /\ processed_ids' = processed_ids \cup {call.id}]_vars
    /\ [](call.result = "True" =>
            /\ call.mark = "ok"
            /\ store[call.id] = [present |-> TRUE, status |-> "suitable",
                                 processed_at |-> TRUE]
            /\ call.id \in processed_ids)

C25_Witness ==
    /\ pc = "sleep1"
    /\ notifier
    /\ call.result = "True"
    /\ call.fetch = "full"
    /\ call.notify = "true"
    /\ call.id \in processed_ids

\* C26: when save_listing raised, process_listing goes to its handler at once:
\* mark_listing_error is called for that id, no notification is attempted,
\* mark_listing_processed is not called, the cache and the table are left as
\* they were by that step, and the call returns False, it does not raise.
C26_SaveFailurePath ==
    /\ []((CallDone /\ call.save \in {"raised", "unique"}) =>
            /\ call.markerr # "none"
            /\ call.notify = "none"
            /\ call.mark = "none"
            /\ call.id \notin processed_ids
            /\ call.result = "False")
    /\ [][(pc = "pl_save" /\ call'.save \in {"raised", "unique"}) =>
            /\ pc' = "pl_except"
            /\ basic_info'.listing_id = call.id
            /\ processed_ids' = processed_ids
            /\ store' = store]_vars

\* C27: a call for a listing whose existence check is true (the id is in the
\* cache, or the query finds its row) returns False in that one step: no
\* description fetch, no save, no notification, no marking, and the table
\* and the cache are unchanged.
C27_SkippedIsSideEffectFree ==
    /\ [][(pc = "pl_gate" /\ pc' # "pl_gate" /\ TaskStep
             /\ (Head(listings_data) \in processed_ids
                   \/ (store[Head(listings_data)].present /\ call'.gate # "raised"))) =>
            /\ call'.id = Head(listings_data)
            /\ call'.result = "False"
            /\ pc' = "sleep1"
            /\ store' = store
            /\ processed_ids' = processed_ids
            /\ call'.fetch = "none" /\ call'.save = "none" /\ call'.notify = "none"
            /\ call'.mark = "none" /\ call'.markerr = "none"]_vars
    /\ []((CallDone /\ call.gate \in {"cached", "skipped"}) =>
            (call.result = "False" /\ call.fetch = "none" /\ call.save = "none"
                /\ call.notify = "none"))

\* a listing whose row is in the table, but whose id is not in the cache, was
\* skipped
C27_Witness ==
    /\ CallDone
    /\ call.gate = "skipped"
    /\ call.result = "False"
    /\ call.id \notin processed_ids
    /\ store[call.id].present

\* C28: every row of the table has a status among new, suitable, error; the
\* pipeline inserts every row with status 'suitable', and the only change of
\* a row's status afterwards is to 'error'.
C28_StatusInvariant ==
    /\ [](\A id \in Ids : store[id].present =>
            store[id].status \in {"new", "suitable", "error"})
    /\ [][\A id \in Ids :
            /\ (~store[id].present /\ store'[id].present) =>
                  (store'[id].status = "suitable" /\ pc = "pl_save")
            /\ (store[id].present /\ store'[id].status # store[id].status) =>
                  (store'[id].present /\ store'[id].status = "error")
            /\ store[id].present => store'[id].present]_vars

\* one row was inserted and is still 'suitable', another one has been set to
\* 'error'
C28_Witness ==
    \E i, j \in Ids :
        /\ store[i].present /\ store[i].status = "suitable"
        /\ store[j].present /\ store[j].status = "error"

\* C29: a session that is left, by an exception or at its end, has its driver
\* quit before the wait of 10 and before the next session is created: no
\* session is open during the wait, when the next one is created, or once
\* search_apartments has returned, and a session is only opened when none is.
C29_FreshSessionPerRetry ==
    /\ [](pc \in {"sleep10", "session_init", "cycle_return", "loop_sleep",
                   "loop_while", "cancelled", "finished"} => driver = "none")
    /\ [][(driver' = "open" /\ driver # "open") =>
            (driver = "none" /\ pc = "session_init")]_vars
    /\ [][scraper_retry_count' = scraper_retry_count + 1 =>
            (driver' = "none" /\ pc' \in {"sleep10", "cycle_return"})]_vars

\* the second session of a cycle is open; the first one had got as far as the
\* urls and failed when it was left
C29_Witness ==
    /\ driver = "open"
    /\ scraper_retry_count = 1
    /\ visits > 0
    /\ pc = "target"
    /\ target = 1
    /\ cycles = 1
    /\ restarts = 0

\* C30: an article that has its listing id and url is returned by
\* check_search_results whatever its optional fields are like: a price, size
\* or rooms field that is absent or does not parse is None in the listing.
C30_OptionalFieldsTolerated ==
    (scraper_pc = "returned" /\ article > 0) =>
        /\ Len(collected) = Len(listing_articles)
        /\ \A k \in 1..Len(collected) :
              /\ collected[k].listing_id = listing_articles[k].adid
              /\ collected[k].price = FieldOf(listing_articles[k].price)
              /\ collected[k].size = FieldOf(listing_articles[k].size)
              /\ collected[k].rooms = FieldOf(listing_articles[k].rooms)

\* C31: no exception of a cycle reaches _search_loop: consecutive_failures is
\* 0 in every state and the break of 2 x CHECK_INTERVAL is never taken; every
\* cycle, a given-up one included, ends by returning to the loop, which goes on
\* with the sleep of CHECK_INTERVAL as after a success.
C31_NoFailureReachesLoop ==
    /\ [](consecutive_failures = 0 /\ pc # "loop_backoff" /\ streak = 0)
    /\ [][(scraper_retry_count' = max_scraper_retries /\ scraper_retry_count' # scraper_retry_count) =>
            pc' = "cycle_return"]_vars
    /\ [][(pc = "cycle_return" /\ pc' \notin {"cycle_return", "idle"}) =>
            (pc' = "loop_sleep" /\ sleeping' = CHECK_INTERVAL /\ stats' = stats)]_vars

\* a cycle given up after 3 failed session attempts, one of them after listings
\* had been handled, has returned and the loop sleeps as after a success
C31_Witness ==
    /\ pc = "loop_sleep"
    /\ RetriesExhausted(scraper_retry_count)
    /\ cyc.inited
    /\ stats.errors > 0
    /\ consecutive_failures = 0
    /\ sleeping = CHECK_INTERVAL

\* C32: whatever the cycles, session retries and restarts over one table,
\* send_listing_notification is called at most once per listing_id, and it is
\* called for an id only when the table holds a row for that id.
C32_AtMostOneNotification ==
    /\ [](\A id \in Ids : notifications[id] <= 1)
    /\ [][\A id \in Ids : notifications'[id] # notifications[id] =>
            (listing_exists(store, id) /\ listing_exists(store', id))]_vars

\* a listing notified before a restart is met again in a later cycle of the
\* restarted process and is not notified again
C32_Witness ==
    /\ restarts = 1
    /\ call.id = 111
    /\ call.gate = "skipped"
    /\ call.result = "False"
    /\ notifications[111] = 1
    /\ 111 \notin processed_ids

\* C33: every listing_id in processed_ids has a row in the table with
\* processed_at set; the cache grows only by the id of a call that passed the
\* gate, whose mark_listing_processed succeeded and which returns True, so
\* the id of a skipped or failed call is never added.
C33_CacheWithinProcessedRows ==
    /\ [](\A id \in processed_ids :
            listing_exists(store, id) /\ store[id].processed_at)
    /\ [][processed_ids' # processed_ids =>
            \/ processed_ids' = {} /\ restarts' = restarts + 1
            \/ /\ processed_ids' = processed_ids \cup {call'.id}
               /\ call'.gate = "passed"
               /\ call'.mark = "ok"
               /\ call'.result = "True"]_vars
    /\ [][(call.result = "pending" /\ call'.result \in {"False", "raised"}) =>
            processed_ids' = processed_ids]_vars

\* one listing is in the cache; the call for a second one has failed after its
\* insert: its row has processed_at set by mark_listing_error, its id is not
\* in the cache
C33_Witness ==
    /\ processed_ids = {111}
    /\ call.id = 222
    /\ call.save = "ok"
    /\ call.markerr = "ok"
    /\ call.result = "False"
    /\ store[222].processed_at

\* the process_listing call ends in this step
CallEnds == call.result = "pending" /\ call'.result \in {"False", "True", "raised"}

\* the call failed before its insert was committed
FailedBeforeInsert(c) == c.fetch = "raised" \/ c.save = "raised"

\* C34: a call whose fetch or save_listing raised ends with the table and the
\* cache as they were, no row and no cache entry for its listing; and whenever
\* a listing with no row and no cache entry is met, the gate does not skip it:
\* the description is fetched again (unless the query of the gate raises).
C34_EarlyFailureIsRetried ==
    /\ [][(CallEnds /\ FailedBeforeInsert(call')) =>
            /\ store' = store
            /\ processed_ids' = processed_ids
            /\ ~listing_exists(store', call'.id)
            /\ call'.id \notin processed_ids']_vars
    /\ [][(pc = "pl_gate" /\ pc' \notin {"pl_gate", "idle"}
             /\ ~listing_exists(store, Head(listings_data))
             /\ Head(listings_data) \notin processed_ids) =>
            /\ call'.id = Head(listings_data)
            /\ call'.gate \in {"passed", "raised"}
            /\ call'.gate = "passed" => pc' = "pl_fetch"]_vars

\* the call before this one was for the same listing and left no row; in the
\* next cycle the listing has passed the gate again and its description is
\* about to be fetched
C34_Witness ==
    /\ cycles = 2
    /\ prev = 111
    /\ call.id = 111
    /\ call.gate = "passed"
    /\ pc = "pl_fetch"
    /\ ~listing_exists(store, 111)
    /\ notifications[111] = 0

\* C35: the three counters of stats are never negative and, within a cycle,
\* never decrease; when a cycle that needed one session attempt returns,
\* processed + errors = total_found.
C35_StatsCounters ==
    /\ [](stats.total_found >= 0 /\ stats.processed >= 0 /\ stats.errors >= 0)
    /\ [][(cycles' = cycles /\ restarts' = restarts) =>
            /\ stats'.total_found >= stats.total_found
            /\ stats'.processed >= stats.processed
            /\ stats'.errors >= stats.errors]_vars
    /\ []((pc = "cycle_return" /\ cyc.attempts = 1) =>
            stats.processed + stats.errors = stats.total_found)

\* a cycle that found 3 listings on one session attempt is about to return:
\* calls that returned and calls that raised are both counted
C35_Witness ==
    /\ pc = "cycle_return"
    /\ cyc.attempts = 1
    /\ stats.total_found = 3
    /\ stats.processed >= 1
    /\ stats.errors >= 1

\* what a call of start() or stop() can change besides the record of the call
Lifecycle == <<is_running, tasks, search_task, awaited, pool>>

\* C36: start() on a running runner and stop() on a runner that is not
\* running (never started, stopped, or being stopped) change nothing: no task
\* is created or cancelled, is_running and search_task stay, the pool is not
\* closed and nothing outside the runner is touched.
C36_RedundantCallsChangeNothing ==
    /\ [][(RunnerStart /\ is_running) =>
            (UNCHANGED Lifecycle /\ UNCHANGED lifecycleFrame /\ "start" \in ignored')]_vars
    /\ [][(RunnerStop /\ ~is_running) =>
            (UNCHANGED Lifecycle /\ UNCHANGED lifecycleFrame /\ "stop" \in ignored')]_vars
    /\ [][ignored' # ignored => UNCHANGED Lifecycle]_vars

\* a start() has been refused while the runner was running, and a stop() has
\* been refused while the first stop() was still waiting for its task: the
\* pool is still open
C36_Witness ==
    /\ ignored = {"start", "stop"}
    /\ last_call = "stop_ignored"
    /\ Created = 1
    /\ awaited = {1}
    /\ ~is_running
    /\ pool = "open"

\* C37: a search cycle that has started returns its stats, whatever the
\* outcomes of the fetches, saves, notifications and session attempts, and
\* it makes at most 3 session attempts; no url is left waiting for a page.
C37_CycleTerminates ==
    /\ (pc = "session_init" /\ cyc.attempts = 0) ~> (pc = "cycle_return")
    /\ [](cyc.attempts <= max_scraper_retries /\ scraper_retry_count <= max_scraper_retries)
    /\ []((pc = "target" /\ target <= Len(SEARCH_URLS)) => visits < MaxCycleVisits)

\* the cycle returns after its third session attempt; two of its attempts
\* went through all urls, and calls of process_listing have raised on the way
C37_Witness ==
    /\ pc = "cycle_return"
    /\ cyc.attempts = 3
    /\ visits >= 2 * NumTargets
    /\ stats.errors > 0
    /\ cyc.fault

====
